---- MODULE Spec2Model ----
(***************************************************************************)
(* NYC 311 service request pipeline.                                       *)
(*                                                                         *)
(*   Fetcher  (src/src/nyc311_api.py):      fetch_nyc311_data, _fetch_page *)
(*   Cleaner  (src/src/nyc311_cleaning.py): the seven cleaning stages and  *)
(*                                          the driver clean_nyc311_data   *)
(*                                                                         *)
(* The fetcher is a state machine over the position of the call (pc); the  *)
(* cleaner's stages are pure functions on tables, applied by actions.      *)
(***************************************************************************)
EXTENDS Integers, Sequences, FiniteSets, TLC

VARIABLES
    \* ---- fetch_nyc311_data / _fetch_page ----
    pc,         \* position of the call: idle, loop, get, page, finally, done, raised
    limit,      \* argument `limit`
    offset,     \* local `offset`
    page_count, \* local `page_count`
    records,    \* local `records`: the accumulated rows
    rows,       \* the rows _fetch_page returned for the current page
    attempt,    \* loop variable of _fetch_page
    err,        \* the exception the current attempt caught ("none" when none)
    session,    \* none (not created), open, closed
    pending,    \* what leaves the try block: "return" or the exception in flight
    outcome,    \* what the caller sees: none, table, or the exception raised
    result,     \* NoResult, or <<table>> once a table was returned
    requests,   \* log: the params of every _fetch_page call, in order
    gets,       \* log: every session.get call, [page, attempt]
    served,     \* log: the size of every page the source answered
    sleeps,     \* log: every time.sleep call, [page, secs]
    \* ---- cleaning ----
    df,         \* the current table
    stage,      \* position in the cleaning run
    hist,       \* log: the table after every stage applied so far
    args        \* the arguments of the calls made so far

fetchVars == <<pc, limit, offset, page_count, records, rows, attempt, err, session,
               pending, outcome, result, requests, gets, served, sleeps>>
cleanVars == <<df, stage, hist, args>>
vars == <<fetchVars, cleanVars>>

----------------------------------------------------------------------------
(* Bounds of the model *)

\* the source never answers more than MaxPages full pages
MaxPages == 3
\* the source holds at most this many rows per page; small limits go up to it
MaxRowsPerPage == 3

(* Program constants *)
MAX_LIMIT == 50000
\* (variant: one attempt more)
MAX_RETRIES_PLUS == 3 + 1
\* line 19, and line 40: for attempt in range(MAX_RETRIES)
MAX_RETRIES == 3
RETRY_DELAY == 2

Min(a, b) == IF a < b THEN a ELSE b

\* the values of `limit` tried: around both ends of the valid range
Limits == (-1 .. MaxRowsPerPage) \cup {MAX_LIMIT - 1, MAX_LIMIT, MAX_LIMIT + 1}

\* the exceptions _fetch_page retries on
Transient == {"ReadTimeout", "ConnectionError"}

NoResult == <<>>

----------------------------------------------------------------------------
(* Fetcher *)

\* (variant: limit < 0 in place of limit <= 0)
LimitInvalidLoose(l) == l < 0 \/ l > MAX_LIMIT
\* line 82: if limit <= 0 or limit > MAX_LIMIT
LimitInvalid(l) == l <= 0 \/ l > MAX_LIMIT

\* _build_params: the page-dependent parameters ($order and $where are fixed)
build_params(l, off) == [limit |-> l, offset |-> off]

\* line 51: if attempt < MAX_RETRIES - 1
ShouldRetry(a) == a < MAX_RETRIES - 1

\* (variant: a linear backoff)
WaitTimeLinear(a) == RETRY_DELAY * a
\* line 52: wait_time = RETRY_DELAY * (2 ** attempt)
WaitTime(a) == RETRY_DELAY * (2 ^ a)

\* (variant: <= in place of <)
LastPageInclusive(rs, l) == Len(rs) <= l
\* line 136: if len(rows) < limit
LastPage(rs, l) == Len(rs) < l

\* The source, ordered by created_date: the page at offset `off` holding s rows
\* is rows off+1 .. off+s of the dataset.
SourceRows(off, s) == [i \in 1..s |-> off + i]

InitFetch ==
    /\ pc = "idle"
    /\ limit = 0
    /\ offset = 0
    /\ page_count = 0
    /\ records = <<>>
    /\ rows = <<>>
    /\ attempt = 0
    /\ err = "none"
    /\ session = "none"
    /\ pending = "none"
    /\ outcome = "none"
    /\ result = NoResult
    /\ requests = <<>>
    /\ gets = <<>>
    /\ served = <<>>
    /\ sleeps = <<>>
    \* the cleaner is not running
    /\ df = <<>>
    /\ stage = "unused"
    /\ hist = <<>>
    /\ args = <<>>

\* lines 82-83: the limit is refused
FetchRaise(l) ==
    /\ pc = "idle"
    /\ LimitInvalid(l)
    /\ limit' = l
    /\ outcome' = "ValueError"
    /\ pc' = "raised"
    /\ UNCHANGED <<offset, page_count, records, rows, attempt, err, session, pending,
                   result, requests, gets, served, sleeps,
                   cleanVars>>

\* lines 85-111: locals set, session created
FetchStart(l) ==
    /\ pc = "idle"
    /\ ~LimitInvalid(l)
    /\ limit' = l
    /\ records' = <<>>
    /\ offset' = 0
    /\ page_count' = 0
    /\ session' = "open"
    /\ pc' = "loop"
    /\ UNCHANGED <<rows, attempt, err, pending, outcome, result, requests, gets,
                   served, sleeps,
                   cleanVars>>

\* lines 114-122: top of the while loop, _fetch_page is called
LoopTop ==
    /\ pc = "loop"
    /\ page_count' = page_count + 1
    /\ requests' = Append(requests, build_params(limit, offset))
    /\ attempt' = 0
    /\ err' = "none"
    /\ pc' = "get"
    /\ UNCHANGED <<limit, offset, records, rows, session, pending, outcome, result,
                   gets, served, sleeps,
                   cleanVars>>

\* lines 42-49: session.get answers s rows, _fetch_page returns them
GetReturns(s) ==
    /\ pc = "get"
    /\ attempt \in 0 .. MAX_RETRIES - 1
    /\ s \in 0 .. Min(limit, MaxRowsPerPage)
    /\ (s = limit => page_count <= MaxPages)
    /\ gets' = Append(gets, [page |-> page_count, attempt |-> attempt])
    /\ served' = Append(served, s)
    /\ rows' = SourceRows(offset, s)
    /\ pc' = "page"
    /\ UNCHANGED <<limit, offset, page_count, records, attempt, err, session, pending,
                   outcome, result, requests, sleeps,
                   cleanVars>>

\* lines 50-54: a read timeout or connection error, retried after a sleep
GetFailsRetry(e) ==
    /\ pc = "get"
    /\ attempt \in 0 .. MAX_RETRIES - 1
    /\ e \in Transient
    /\ ShouldRetry(attempt)
    /\ gets' = Append(gets, [page |-> page_count, attempt |-> attempt])
    /\ err' = e
    /\ sleeps' = Append(sleeps, [page |-> page_count, secs |-> WaitTime(attempt)])
    /\ attempt' = attempt + 1
    /\ UNCHANGED <<pc, limit, offset, page_count, records, rows, session, pending,
                   outcome, result, requests, served,
                   cleanVars>>

\* lines 50, 55-57 and 123-125: the last attempt fails, the exception is raised
\* out of _fetch_page and out of the try block of fetch_nyc311_data
GetFailsFinal(e) ==
    /\ pc = "get"
    /\ attempt \in 0 .. MAX_RETRIES - 1
    /\ e \in Transient
    /\ ~ShouldRetry(attempt)
    /\ gets' = Append(gets, [page |-> page_count, attempt |-> attempt])
    /\ err' = e
    /\ pending' = e
    /\ pc' = "finally"
    /\ UNCHANGED <<limit, offset, page_count, records, rows, attempt, session, outcome,
                   result, requests, served, sleeps,
                   cleanVars>>

\* line 48: raise_for_status (or any exception _fetch_page does not catch)
GetHTTPError ==
    /\ pc = "get"
    /\ attempt \in 0 .. MAX_RETRIES - 1
    /\ gets' = Append(gets, [page |-> page_count, attempt |-> attempt])
    /\ pending' = "HTTPError"
    /\ pc' = "finally"
    /\ UNCHANGED <<limit, offset, page_count, records, rows, attempt, err, session,
                   outcome, result, requests, served, sleeps,
                   cleanVars>>

\* lines 127-129: if not rows: break
PageEmpty ==
    /\ pc = "page"
    /\ rows = <<>>
    /\ pending' = "return"
    /\ pc' = "finally"
    /\ UNCHANGED <<limit, offset, page_count, records, rows, attempt, err, session,
                   outcome, result, requests, gets, served, sleeps,
                   cleanVars>>

\* lines 131-138: the last page
PageShort ==
    /\ pc = "page"
    /\ rows # <<>>
    /\ LastPage(rows, limit)
    /\ records' = records \o rows
    /\ offset' = offset + limit
    /\ pending' = "return"
    /\ pc' = "finally"
    /\ UNCHANGED <<limit, page_count, rows, attempt, err, session, outcome, result,
                   requests, gets, served, sleeps,
                   cleanVars>>

\* lines 131-136: a full page, the loop goes on
PageFull ==
    /\ pc = "page"
    /\ rows # <<>>
    /\ ~LastPage(rows, limit)
    /\ records' = records \o rows
    /\ offset' = offset + limit
    /\ pc' = "loop"
    /\ UNCHANGED <<limit, page_count, rows, attempt, err, session, pending, outcome,
                   result, requests, gets, served, sleeps,
                   cleanVars>>

\* (variant: the session is closed on the return path only)
FinallyLeak ==
    /\ pc = "finally"
    /\ IF pending = "return"
       THEN /\ session' = "closed"
            /\ result' = <<records>>
            /\ outcome' = "table"
            /\ pc' = "done"
       ELSE /\ session' = session
            /\ result' = result
            /\ outcome' = pending
            /\ pc' = "raised"
    /\ UNCHANGED <<limit, offset, page_count, records, rows, attempt, err, pending,
                   requests, gets, served, sleeps,
                   cleanVars>>
\* lines 139-148: session.close(), then the table is returned or the exception
\* goes on to the caller
Finally ==
    /\ pc = "finally"
    /\ session' = "closed"
    /\ IF pending = "return"
       THEN /\ result' = <<records>>
            /\ outcome' = "table"
            /\ pc' = "done"
       ELSE /\ result' = result
            /\ outcome' = pending
            /\ pc' = "raised"
    /\ UNCHANGED <<limit, offset, page_count, records, rows, attempt, err, pending,
                   requests, gets, served, sleeps,
                   cleanVars>>

NextFetch ==
    \/ \E l \in Limits : FetchRaise(l)
    \/ \E l \in Limits : FetchStart(l)
    \/ LoopTop
    \/ \E s \in 0 .. MaxRowsPerPage : GetReturns(s)
    \/ \E e \in Transient : GetFailsRetry(e)
    \/ \E e \in Transient : GetFailsFinal(e)
    \/ GetHTTPError
    \/ PageEmpty
    \/ PageShort
    \/ PageFull
    \/ Finally

SpecFetch == InitFetch /\ [][NextFetch]_vars

----------------------------------------------------------------------------
(* Cleaner: values *)

\* the tables tried by the cleaning specifications hold at most MaxRows rows
MaxRows == 3
\* the tables tried for remove_duplicates hold at most MaxDedupRows rows
MaxDedupRows == 4
\* the tables tried for select_top_complaint_types hold at most MaxTypeRows rows
MaxTypeRows == 4

\* None / NaN in a column of strings
NULL == "<null>"
\* NaT / NaN in a typed column; a present value v is <<v>>
NA == <<>>

\* response_time_days is a float; the model keeps it in fixed point, as a whole
\* number of 1/Scale days (all timestamps tried are multiples of half a day)
Scale == 1000

\* pd.to_datetime(errors="coerce"): seconds since 2024-01-01T00:00:00, NaT for
\* None and for a string that is no date
ToDatetime(s) ==
    CASE s = "2024-01-01T00:00:00.000" -> <<0>>
      [] s = "2024-01-01T12:00:00.000" -> <<43200>>
      [] s = "2024-01-02T00:00:00.000" -> <<86400>>
      [] s = "2024-01-04T00:00:00.000" -> <<259200>>
      [] OTHER -> NA

D0 == "2024-01-01T00:00:00.000"
D12h == "2024-01-01T12:00:00.000"
D1 == "2024-01-02T00:00:00.000"
D3 == "2024-01-04T00:00:00.000"

\* a row as the API returns it
RawRow(k, c, cl, t, b, ch) ==
    [unique_key |-> k, created_date |-> c, closed_date |-> cl, complaint_type |-> t,
     borough |-> b, open_data_channel_type |-> ch]

\* pd.DataFrame.from_records: the rows get the index labels 0, 1, ...
FromRecords(rs) ==
    [i \in 1 .. Len(rs) |->
        [f \in DOMAIN rs[i] \cup {"index"} |-> IF f = "index" THEN i - 1 ELSE rs[i][f]]]

HasColumn(t, c) == \A i \in 1 .. Len(t) : c \in DOMAIN t[i]

----------------------------------------------------------------------------
(* Cleaner: the stages *)

\* convert_dates_to_datetime
convert_dates_to_datetime(t) ==
    [i \in 1 .. Len(t) |->
        [t[i] EXCEPT !.created_date = ToDatetime(@), !.closed_date = ToDatetime(@)]]

\* (variant: created - closed)
ResponseTimeDaysReversed(created, closed) ==
    IF created = NA \/ closed = NA
    THEN NA
    ELSE <<((created[1] - closed[1]) * Scale) \div (24 * 3600)>>
\* line 60: (closed - created).dt.total_seconds() / (24 * 3600); NaN when a date is NaT
ResponseTimeDays(created, closed) ==
    IF created = NA \/ closed = NA
    THEN NA
    ELSE <<((closed[1] - created[1]) * Scale) \div (24 * 3600)>>

\* compute_response_time
compute_response_time(t) ==
    [i \in 1 .. Len(t) |->
        [f \in DOMAIN t[i] \cup {"response_time_days"} |->
            IF f = "response_time_days"
            THEN ResponseTimeDays(t[i].created_date, t[i].closed_date)
            ELSE t[i][f]]]

\* line 103: df["response_time_days"] > 0 (False for NaN)
Positive(v) == v # NA /\ v[1] > 0

\* filter_invalid_rows
filter_invalid_rows(t, require_created_date, require_closed_date, require_borough) ==
    LET t1 == IF require_created_date
              THEN SelectSeq(t, LAMBDA r : r.created_date # NA) ELSE t
        t2 == IF require_closed_date
              THEN SelectSeq(t1, LAMBDA r : r.closed_date # NA) ELSE t1
        t3 == IF require_borough
              THEN SelectSeq(t2, LAMBDA r : r.borough # NULL) ELSE t2
    IN  IF HasColumn(t3, "response_time_days")
        THEN SelectSeq(t3, LAMBDA r : Positive(r.response_time_days))
        ELSE t3

\* .str.upper() on the channel values tried (NaN stays NaN)
StrUpper(s) ==
    CASE s = "Phone" -> "PHONE"
      [] s = " mobile " -> " MOBILE "
      [] s = "online" -> "ONLINE"
      [] s = "fax" -> "FAX"
      [] OTHER -> s

\* .str.strip() on the channel values tried
StrStrip(s) ==
    CASE s = " MOBILE " -> "MOBILE"
      [] OTHER -> s

\* lines 130-136 and .map(channel_mapping): NaN for a value that is no key
ChannelMapping(s) ==
    CASE s = "PHONE" -> "Phone"
      [] s = "ONLINE" -> "Web"
      [] s = "UNKNOWN" -> "Web"
      [] s = "MOBILE" -> "App"
      [] s = "OTHER" -> "Web"
      [] OTHER -> NULL

\* .fillna("Web")
FillNa(s) == IF s = NULL THEN "Web" ELSE s

\* standardize_channel_type
standardize_channel_type(t) ==
    [i \in 1 .. Len(t) |->
        [t[i] EXCEPT !.open_data_channel_type = FillNa(ChannelMapping(StrStrip(StrUpper(@))))]]

\* drop_duplicates(subset=[key], keep="first"): a row is dropped when its key
\* was seen in an earlier row
RECURSIVE DropDuplicates(_, _, _)
DropDuplicates(t, i, seen) ==
    IF i > Len(t)
    THEN <<>>
    ELSE IF t[i].unique_key \in seen
         THEN DropDuplicates(t, i + 1, seen)
         ELSE <<t[i]>> \o DropDuplicates(t, i + 1, seen \cup {t[i].unique_key})

\* (variant: keep="last")
remove_duplicates_keep_last(t) ==
    LET keep(i) == \A j \in i + 1 .. Len(t) : t[j].unique_key # t[i].unique_key
        idx == {i \in 1 .. Len(t) : keep(i)}
        RECURSIVE Pick(_)
        Pick(i) == IF i > Len(t) THEN <<>>
                   ELSE (IF i \in idx THEN <<t[i]>> ELSE <<>>) \o Pick(i + 1)
    IN  Pick(1)
\* remove_duplicates
remove_duplicates(t) == DropDuplicates(t, 1, {})

\* the values of response_time_days that are not NaN, in row order
ResponseTimes(t) ==
    LET present == SelectSeq(t, LAMBDA r : r.response_time_days # NA)
    IN  [i \in 1 .. Len(present) |-> present[i].response_time_days[1]]

\* Series.quantile(pct / 100), linear interpolation between the two nearest
\* order statistics; NaN for an empty series. pct is a whole percentage.
Quantile(vals, pct) ==
    LET v == SortSeq(vals, LAMBDA a, b : a < b)
        n == Len(v)
        pos == (n - 1) * pct
        lo == pos \div 100 + 1
        hi == IF pos % 100 = 0 THEN lo ELSE lo + 1
    IN  IF n = 0
        THEN NA
        ELSE <<v[lo] + ((v[hi] - v[lo]) * (pos % 100)) \div 100>>

\* (variant: no clipping)
ClipNothing(v, threshold) == v
\* .clip(upper=threshold) on one value (NaN stays NaN, a NaN threshold clips nothing)
ClipUpper(v, threshold) ==
    IF v = NA \/ threshold = NA
    THEN v
    ELSE IF v[1] > threshold[1] THEN threshold ELSE v

\* winsorize_response_time
winsorize_response_time(t, percentile) ==
    IF ~HasColumn(t, "response_time_days")
    THEN t
    ELSE LET threshold == Quantile(ResponseTimes(t), percentile)
         IN  [i \in 1 .. Len(t) |->
                [t[i] EXCEPT !.response_time_days = ClipUpper(@, threshold)]]

\* value_counts(): the distinct values (NaN dropped) and their counts
ComplaintTypes(t) == {t[i].complaint_type : i \in 1 .. Len(t)} \ {NULL}
ComplaintCount(t, c) == Cardinality({i \in 1 .. Len(t) : t[i].complaint_type = c})

\* value_counts() sorts by count, largest first; the order among equal counts
\* is the sort's own, so every order by decreasing count is a possible one
ValueCountsOrders(t) ==
    LET cats == ComplaintTypes(t)
        n == Cardinality(cats)
    IN  {s \in [1 .. n -> cats] :
            /\ \A i, j \in 1 .. n : i # j => s[i] # s[j]
            /\ \A i, j \in 1 .. n : i < j => ComplaintCount(t, s[i]) >= ComplaintCount(t, s[j])}

\* (variant: n_top, when given, decides before min_count)
TopTypesCountFirst(t, n_top, min_count, order) ==
    IF n_top # NA
    THEN {order[i] : i \in 1 .. Min(n_top[1], Len(order))}
    ELSE {c \in ComplaintTypes(t) : ComplaintCount(t, c) >= min_count[1]}
\* lines 244-249: top_types
TopTypes(t, n_top, min_count, order) ==
    IF min_count # NA
    THEN {c \in ComplaintTypes(t) : ComplaintCount(t, c) >= min_count[1]}
    ELSE {order[i] : i \in 1 .. Min(n_top[1], Len(order))}

\* select_top_complaint_types, with value_counts() giving `order`
select_top_complaint_types(t, n_top, min_count, order) ==
    LET top_types == TopTypes(t, n_top, min_count, order)
    IN  SelectSeq(t, LAMBDA r : r.complaint_type \in top_types)

----------------------------------------------------------------------------
(* Cleaner: the inputs tried *)

\* rows with every defect the stages look for: duplicate keys, a closing date
\* before or at the creation date, missing and unparseable dates, a missing
\* borough, channel values in and out of the mapping
RowPool ==
    { RawRow(1, D0, D1, "A", "BRONX", "PHONE"),
      RawRow(1, D0, D3, "B", "QUEENS", " mobile "),
      RawRow(2, D0, D12h, "A", "BRONX", "online"),
      RawRow(2, D1, D0, "B", "BRONX", "Phone"),
      RawRow(3, D0, D0, "A", "BRONX", "fax"),
      RawRow(3, D0, NULL, "B", "BRONX", NULL),
      RawRow(2, "not a date", D1, "A", "QUEENS", "UNKNOWN"),
      RawRow(1, NULL, D1, "A", "BRONX", "OTHER"),
      RawRow(3, D0, D3, "C", NULL, "MOBILE"),
      RawRow(3, D12h, D3, "C", "BROOKLYN", "ONLINE") }

\* every table of at most n rows of the set S
TablesOver(S, n) == {FromRecords(rs) : rs \in UNION {[1 .. m -> S] : m \in 0 .. n}}

PoolTables == TablesOver(RowPool, MaxRows)

\* tables that differ in their keys only
KeyTables ==
    TablesOver({RawRow(k, D0, D1, "A", "BRONX", "PHONE") : k \in 1 .. 3}, MaxDedupRows)

\* complaint type counts {A: 50, B: 30, C: 10, D: 5}, the rarest types first
ExampleTable ==
    FromRecords([i \in 1 .. 95 |->
        RawRow(i, D0, D1,
               IF i <= 5 THEN "D" ELSE IF i <= 15 THEN "C" ELSE IF i <= 45 THEN "B" ELSE "A",
               "BRONX", "PHONE")])

\* tables that differ in their complaint types only, and the example
TypeTables ==
    {FromRecords([i \in 1 .. Len(ts) |-> RawRow(i, D0, D1, ts[i], "BRONX", "PHONE")]) :
        ts \in UNION {[1 .. m -> {"A", "B", "C", NULL}] : m \in 0 .. MaxTypeRows}}
    \cup {ExampleTable}

\* 5 rows with unique_key 1, 1, 2, 3, 4: the key-2 row closed before it was
\* created, row nb without a borough, every other field valid
ScenarioTables ==
    {FromRecords([i \in 1 .. 5 |->
        RawRow(<<1, 1, 2, 3, 4>>[i],
               IF i = 3 THEN neg ELSE D0,
               IF i = 3 THEN D12h ELSE cl[i],
               "A",
               IF i = nb THEN NULL ELSE "BRONX",
               "PHONE")]) :
        nb \in 1 .. 5, neg \in {D1, D3}, cl \in [1 .. 5 -> {D1, D3}]}

Percentiles == {0, 50, 99, 100}
Toggles == [require_created_date : BOOLEAN, require_closed_date : BOOLEAN,
            require_borough : BOOLEAN]

\* no argument given yet; the defaults of filter_invalid_rows
NoArgs ==
    [winsorize_percentile |-> NA, top_complaint_types |-> NA, min_complaint_count |-> NA,
     require_created_date |-> TRUE, require_closed_date |-> TRUE, require_borough |-> TRUE]

----------------------------------------------------------------------------
(* Cleaner: clean_nyc311_data *)

InitClean ==
    /\ df \in PoolTables
    /\ stage = "raw"
    /\ hist = <<df>>
    /\ args = NoArgs
    \* no fetch is running
    /\ pc = "idle" /\ limit = 0 /\ offset = 0 /\ page_count = 0
    /\ records = <<>> /\ rows = <<>> /\ attempt = 0 /\ err = "none"
    /\ session = "none" /\ pending = "none" /\ outcome = "none" /\ result = NoResult
    /\ requests = <<>> /\ gets = <<>> /\ served = <<>> /\ sleeps = <<>>

\* lines 295-297
Step1 ==
    /\ stage = "raw"
    /\ df' = convert_dates_to_datetime(df)
    /\ stage' = "dated"
    /\ hist' = Append(hist, df')
    /\ UNCHANGED <<args, fetchVars>>

\* lines 299-301
Step2 ==
    /\ stage = "dated"
    /\ df' = compute_response_time(df)
    /\ stage' = "timed"
    /\ hist' = Append(hist, df')
    /\ UNCHANGED <<args, fetchVars>>

\* lines 303-305: filter_invalid_rows with its defaults
Step3 ==
    /\ stage = "timed"
    /\ df' = filter_invalid_rows(df, TRUE, TRUE, TRUE)
    /\ stage' = "filtered"
    /\ hist' = Append(hist, df')
    /\ UNCHANGED <<args, fetchVars>>

\* lines 307-309
Step4 ==
    /\ stage = "filtered"
    /\ df' = standardize_channel_type(df)
    /\ stage' = "standardized"
    /\ hist' = Append(hist, df')
    /\ UNCHANGED <<args, fetchVars>>

\* lines 311-313
Step5 ==
    /\ stage = "standardized"
    /\ df' = remove_duplicates(df)
    /\ stage' = "deduplicated"
    /\ hist' = Append(hist, df')
    /\ UNCHANGED <<args, fetchVars>>

\* lines 315-317, with winsorize_percentile = p
Step6(p) ==
    /\ stage = "deduplicated"
    /\ df' = winsorize_response_time(df, p)
    /\ stage' = "winsorized"
    /\ hist' = Append(hist, df')
    /\ args' = [args EXCEPT !.winsorize_percentile = <<p>>]
    /\ UNCHANGED fetchVars

\* lines 319-322 and 326-329, with top_complaint_types = n, min_complaint_count = m
Step7Select(n, m) ==
    /\ stage = "winsorized"
    /\ n # NA \/ m # NA
    /\ \E order \in ValueCountsOrders(df) :
            df' = select_top_complaint_types(df, n, m, order)
    /\ stage' = "returned"
    /\ hist' = Append(hist, df')
    /\ args' = [args EXCEPT !.top_complaint_types = n, !.min_complaint_count = m]
    /\ UNCHANGED fetchVars

\* lines 323-329: neither argument given, every complaint type is kept
Step7Skip ==
    /\ stage = "winsorized"
    /\ df' = df
    /\ stage' = "returned"
    /\ hist' = Append(hist, df')
    /\ UNCHANGED <<args, fetchVars>>

NextClean ==
    \/ Step1
    \/ Step2
    \/ Step3
    \/ Step4
    \/ Step5
    \/ \E p \in Percentiles : Step6(p)
    \/ \E n \in {NA, <<1>>, <<2>>}, m \in {NA, <<2>>} : Step7Select(n, m)
    \/ Step7Skip

SpecClean == InitClean /\ [][NextClean]_vars

\* the end-to-end scenario
InitScenario ==
    /\ df \in ScenarioTables
    /\ stage = "raw"
    /\ hist = <<df>>
    /\ args = NoArgs
    /\ pc = "idle" /\ limit = 0 /\ offset = 0 /\ page_count = 0
    /\ records = <<>> /\ rows = <<>> /\ attempt = 0 /\ err = "none"
    /\ session = "none" /\ pending = "none" /\ outcome = "none" /\ result = NoResult
    /\ requests = <<>> /\ gets = <<>> /\ served = <<>> /\ sleeps = <<>>

SpecScenario == InitScenario /\ [][NextClean]_vars

----------------------------------------------------------------------------
(* Cleaner: the stages called on their own *)

\* filter_invalid_rows(df, ...) on a table with parsed dates, with or without
\* the response_time_days column
FilterCall(tg) ==
    /\ stage \in {"dated", "timed"}
    /\ df' = filter_invalid_rows(df, tg.require_created_date, tg.require_closed_date,
                               tg.require_borough)
    /\ stage' = "called"
    /\ hist' = Append(hist, df')
    /\ args' = [args EXCEPT !.require_created_date = tg.require_created_date,
                            !.require_closed_date = tg.require_closed_date,
                            !.require_borough = tg.require_borough]
    /\ UNCHANGED fetchVars

NextFilter ==
    \/ Step1
    \/ Step2
    \/ \E tg \in Toggles : FilterCall(tg)

SpecFilter == InitClean /\ [][NextFilter]_vars

\* remove_duplicates(df), and again on its own output
InitDedup ==
    /\ df \in KeyTables
    /\ stage = "input"
    /\ hist = <<df>>
    /\ args = NoArgs
    /\ pc = "idle" /\ limit = 0 /\ offset = 0 /\ page_count = 0
    /\ records = <<>> /\ rows = <<>> /\ attempt = 0 /\ err = "none"
    /\ session = "none" /\ pending = "none" /\ outcome = "none" /\ result = NoResult
    /\ requests = <<>> /\ gets = <<>> /\ served = <<>> /\ sleeps = <<>>

DedupCall ==
    /\ stage \in {"input", "once"}
    /\ df' = remove_duplicates(df)
    /\ stage' = IF stage = "input" THEN "once" ELSE "twice"
    /\ hist' = Append(hist, df')
    /\ UNCHANGED <<args, fetchVars>>

NextDedup == DedupCall

SpecDedup == InitDedup /\ [][NextDedup]_vars

\* select_top_complaint_types(df, n_top, min_count)
InitTop ==
    /\ df \in TypeTables
    /\ stage = "input"
    /\ hist = <<df>>
    /\ args = NoArgs
    /\ pc = "idle" /\ limit = 0 /\ offset = 0 /\ page_count = 0
    /\ records = <<>> /\ rows = <<>> /\ attempt = 0 /\ err = "none"
    /\ session = "none" /\ pending = "none" /\ outcome = "none" /\ result = NoResult
    /\ requests = <<>> /\ gets = <<>> /\ served = <<>> /\ sleeps = <<>>

TopCall(n, m) ==
    /\ stage = "input"
    /\ n # NA \/ m # NA
    /\ \E order \in ValueCountsOrders(df) :
            df' = select_top_complaint_types(df, n, m, order)
    /\ stage' = "selected"
    /\ hist' = Append(hist, df')
    /\ args' = [args EXCEPT !.top_complaint_types = n, !.min_complaint_count = m]
    /\ UNCHANGED fetchVars

NextTop ==
    \E n \in {NA} \cup {<<k>> : k \in 0 .. 3}, m \in {NA} \cup {<<k>> : k \in 0 .. 3} :
        TopCall(n, m)

SpecTop == InitTop /\ [][NextTop]_vars

----------------------------------------------------------------------------
(* Fetcher: properties *)

\* the waits of page p, in order
PageWaits(p) ==
    LET w == SelectSeq(sleeps, LAMBDA x : x.page = p)
    IN  [i \in 1 .. Len(w) |-> w[i].secs]

\* the session.get calls made for page p
PageGets(p) == SelectSeq(gets, LAMBDA x : x.page = p)

\* rows 1 .. n of the dataset
Dataset(n) == [i \in 1 .. n |-> i]

\* the page requests at offsets 0, l, ..., (n-1)*l
Offsets(n, l) == [i \in 1 .. n |-> [limit |-> l, offset |-> (i - 1) * l]]

\* C1: with no request failing, a source that answers n full pages and then a
\* page of k < limit rows is asked exactly n+1 pages, at offsets 0, limit, ...,
\* n*limit in that order, nothing is requested after the short or empty page,
\* and the table returned is the n*limit + k rows in request order.
C1_Pagination ==
    (pc = "done" /\ Len(gets) = Len(requests)) =>
        LET n == Len(served) - 1
            k == served[Len(served)]
        IN  /\ Len(served) >= 1
            /\ limit >= 1 /\ limit <= 50000
            /\ \A i \in 1 .. n : served[i] = limit
            /\ 0 <= k /\ k < limit
            /\ requests = Offsets(n + 1, limit)
            /\ gets = [i \in 1 .. n + 1 |-> [page |-> i, attempt |-> 0]]
            /\ result = <<Dataset(n * limit + k)>>
            /\ ~ENABLED NextFetch

C1_Witness ==
    /\ pc = "done"
    /\ Len(gets) = Len(requests)
    /\ Len(served) = 3
    /\ served[3] > 0
    /\ limit > 1

\* C2: when a page request exhausts its retries, on whichever page, the caller
\* sees the transport error, no further page is requested, no table is
\* returned, and the session is closed before the error reaches the caller.
C2_ExhaustedRetriesAbort ==
    /\ (pc = "finally" /\ pending \in Transient) =>
            /\ outcome = "none"
            /\ result = NoResult
    /\ outcome \in Transient =>
            /\ pc = "raised"
            /\ outcome = err
            /\ Len(PageGets(page_count)) = MAX_RETRIES
            /\ session = "closed"
            /\ result = NoResult
            /\ Len(requests) = page_count
            /\ ~ENABLED NextFetch

C2_Witness ==
    /\ pc = "raised"
    /\ outcome = "ConnectionError"
    /\ page_count = 3
    /\ Len(records) = 2 * limit
    /\ limit > 1

\* C3: a page that succeeds after j failed attempts (j = 0, 1, 2) returns the
\* rows of the successful attempt after exactly j waits (2s, then 4s), and the
\* fetch goes on as if the page had succeeded at once: the rows accumulated,
\* the offsets requested and the table returned do not depend on j.
C3_RetryThenSuccess ==
    /\ pc = "page" =>
            /\ attempt \in {0, 1, 2}
            /\ PageWaits(page_count) = SubSeq(<<2, 4>>, 1, attempt)
            /\ rows = SourceRows((page_count - 1) * limit, served[Len(served)])
            /\ offset = (page_count - 1) * limit
            /\ records = Dataset((page_count - 1) * limit)
            /\ requests = Offsets(page_count, limit)
    /\ pc = "done" =>
            /\ Len(served) = page_count
            /\ result = <<Dataset((page_count - 1) * limit + served[page_count])>>
            /\ requests = Offsets(page_count, limit)

C3_Witness ==
    /\ pc = "done"
    /\ page_count = 2
    /\ PageWaits(1) = <<2, 4>>
    /\ PageWaits(2) = <<2>>
    /\ Len(result[1]) = limit + 1

\* C4: the invalid-argument error is raised if and only if limit < 1 or
\* limit > 50000, and then before a session exists or a request is made.
C4_LimitValidation ==
    pc # "idle" =>
        /\ (outcome = "ValueError") <=> (limit < 1 \/ limit > 50000)
        /\ (limit < 1 \/ limit > 50000) => pc = "raised"
        /\ outcome = "ValueError" =>
                /\ session = "none"
                /\ requests = <<>>
                /\ gets = <<>>

C4_Witness ==
    /\ pc = "raised"
    /\ outcome = "ValueError"
    /\ limit = 0

\* C9 as stated: when every attempt of a page fails, 3 attempts are made and
\* the waits are 2s, 4s and 8s, the last one before the failure is raised.
C9_Original ==
    (pending \in Transient) =>
        /\ Len(PageGets(page_count)) = 3
        /\ PageWaits(page_count) = <<2, 4, 8>>

\* C9 amended: when every attempt of a page fails, exactly MAX_RETRIES = 3
\* attempts are made, the waits are RETRY_DELAY * 2^attempt after each failed
\* attempt but the last (2s before attempt 2, 4s before attempt 3), and the
\* failure is raised right after the third attempt, without a wait.
C9_BackoffOnExhaustion ==
    (pending \in Transient) =>
        /\ PageGets(page_count) = [a \in 1 .. 3 |-> [page |-> page_count, attempt |-> a - 1]]
        /\ PageWaits(page_count) = <<RETRY_DELAY * 2 ^ 0, RETRY_DELAY * 2 ^ 1>>
        /\ PageWaits(page_count) = <<2, 4>>

C9_Witness ==
    /\ pc = "raised"
    /\ outcome = "ReadTimeout"
    /\ Len(PageGets(page_count)) = 3

----------------------------------------------------------------------------
(* Cleaner: properties *)

Keys(t) == {t[i].unique_key : i \in 1 .. Len(t)}
Indexes(t) == {t[i].index : i \in 1 .. Len(t)}
NoSelection == args.top_complaint_types = NA /\ args.min_complaint_count = NA

\* the rows of t, in order, that satisfy Keep
RowsWhere(t, Keep(_)) == SelectSeq(t, Keep)

\* the number of stages of clean_nyc311_data applied so far
StageNo ==
    CASE stage = "raw" -> 0
      [] stage = "dated" -> 1
      [] stage = "timed" -> 2
      [] stage = "filtered" -> 3
      [] stage = "standardized" -> 4
      [] stage = "deduplicated" -> 5
      [] stage = "winsorized" -> 6
      [] stage = "returned" -> 7

\* C5 as stated: in the scenario (keys 1, 1, 2, 3, 4; the key-2 row with a
\* negative duration; one row without borough) stage 3 removes the
\* negative-duration row and the null-borough row, stage 5 removes the
\* duplicate key 1, and exactly 2 rows with the keys {3, 4} are returned.
C5_Original ==
    (stage = "returned" /\ NoSelection) =>
        LET nb == CHOOSE i \in 1 .. 5 : hist[1][i].borough = NULL
        IN  /\ Indexes(hist[4]) = (0 .. 4) \ {2, nb - 1}
            /\ Len(df) = 2
            /\ Keys(df) = {3, 4}

\* C5 amended: stage 3 removes the negative-duration row and the null-borough
\* row; stage 5 removes the second key-1 row unless stage 3 already removed a
\* key-1 row; one row per remaining key is returned: the keys are {1, 3, 4}
\* without the key of the null-borough row when that key is 3 or 4 (2 rows),
\* and {1, 3, 4} when that key is 1 or 2 (3 rows). Key 1 is always returned.
C5_Scenario ==
    (stage = "returned" /\ NoSelection) =>
        LET nb == CHOOSE i \in 1 .. 5 : hist[1][i].borough = NULL
            nbkey == hist[1][nb].unique_key
        IN  /\ Indexes(hist[4]) = (0 .. 4) \ {2, nb - 1}
            /\ Indexes(hist[6]) = Indexes(hist[4]) \ (IF nbkey = 1 THEN {} ELSE {1})
            /\ Indexes(df) = Indexes(hist[6])
            /\ Keys(df) = {1, 3, 4} \ ({nbkey} \cap {3, 4})
            /\ Len(df) = Cardinality(Keys(df))
            /\ Len(df) = IF nbkey \in {3, 4} THEN 2 ELSE 3

C5_Witness ==
    /\ stage = "returned"
    /\ NoSelection
    /\ hist[1][4].borough = NULL
    /\ Len(hist[4]) = 3
    /\ Len(hist[6]) = 2
    /\ Keys(df) = {1, 4}

\* C6: remove_duplicates returns exactly the rows that are the first
\* occurrence of their unique_key, in input order; the keys of the output are
\* unique, and remove_duplicates applied to its output returns it unchanged.
C6_Deduplicate ==
    stage \in {"once", "twice"} =>
        LET input == hist[1]
            out == hist[2]
            First(i) == \A j \in 1 .. i - 1 : input[j].unique_key # input[i].unique_key
        IN  /\ \A k \in 1 .. Len(out) : \E i \in 1 .. Len(input) : out[k] = input[i] /\ First(i)
            /\ \A i \in 1 .. Len(input) : First(i) => \E k \in 1 .. Len(out) : out[k] = input[i]
            /\ \A k, l \in 1 .. Len(out) : k < l => out[k].index < out[l].index
            /\ \A k, l \in 1 .. Len(out) : k # l => out[k].unique_key # out[l].unique_key
            /\ stage = "twice" => hist[3] = out

C6_Witness ==
    /\ stage = "twice"
    /\ Len(hist[1]) = 4
    /\ Len(hist[2]) = 2
    /\ hist[1][1].unique_key = hist[1][3].unique_key
    /\ hist[1][2].unique_key = hist[1][4].unique_key

\* C7: every row of the table clean_nyc311_data returns, and of the table
\* after every stage on the way, satisfies what the earlier stages
\* established: dates and borough present and response_time_days > 0 (from
\* stage 3 on), channel one of Phone, Web, App (from stage 4 on), unique_key
\* unique (from stage 5 on), response_time_days at most the percentile of the
\* table stage 6 received (from stage 6 on).
C7_StageInvariants ==
    /\ StageNo >= 3 =>
            \A i \in 1 .. Len(df) :
                /\ df[i].created_date # NA
                /\ df[i].closed_date # NA
                /\ df[i].borough # NULL
                /\ df[i].response_time_days # NA
                /\ df[i].response_time_days[1] > 0
    /\ StageNo >= 4 =>
            \A i \in 1 .. Len(df) : df[i].open_data_channel_type \in {"Phone", "Web", "App"}
    /\ StageNo >= 5 =>
            \A i, j \in 1 .. Len(df) : i # j => df[i].unique_key # df[j].unique_key
    /\ StageNo >= 6 =>
            LET threshold == Quantile(ResponseTimes(hist[6]), args.winsorize_percentile[1])
            IN  \A i \in 1 .. Len(df) :
                    /\ threshold # NA
                    /\ df[i].response_time_days[1] <= threshold[1]

C7_Witness ==
    /\ stage = "returned"
    /\ args.top_complaint_types = <<1>>
    /\ Len(hist[1]) = 3
    /\ Len(hist[6]) = 3
    /\ Len(df) = 2
    /\ \E i \in 1 .. 3 : hist[7][i].response_time_days # hist[6][i].response_time_days

\* C8: select_top_complaint_types keeps a row if and only if its complaint type
\* is a kept category, in input order. With min_count given the kept
\* categories are those with frequency >= min_count, whatever n_top is; with
\* min_count None they are the n_top most frequent ones (counts {A: 50, B: 30,
\* C: 10, D: 5} and n_top = 2 keep the A and B rows and no other).
C8_TopComplaintTypes ==
    stage = "selected" =>
        LET input == hist[1]
            cats == ComplaintTypes(input)
            n == args.top_complaint_types
            m == args.min_complaint_count
            Frequent == {c \in cats : ComplaintCount(input, c) >= m[1]}
            MostFrequent(K) ==
                /\ Cardinality(K) = Min(n[1], Cardinality(cats))
                /\ \A c \in K, d \in cats \ K :
                        ComplaintCount(input, c) >= ComplaintCount(input, d)
        IN  /\ m # NA => df = RowsWhere(input, LAMBDA r : r.complaint_type \in Frequent)
            /\ m = NA => \E K \in SUBSET cats :
                            /\ MostFrequent(K)
                            /\ df = RowsWhere(input, LAMBDA r : r.complaint_type \in K)
            /\ (m = NA /\ n = <<2>> /\ input = ExampleTable) =>
                    /\ Len(df) = 80
                    /\ {df[i].complaint_type : i \in 1 .. Len(df)} = {"A", "B"}

C8_Witness ==
    /\ stage = "selected"
    /\ hist[1] = ExampleTable
    /\ args.top_complaint_types = <<2>>
    /\ args.min_complaint_count = NA
    /\ Len(df) = 80

\* C10 as stated: filter_invalid_rows removes a row if and only if the row
\* fails a requirement that is switched on or its response_time_days is
\* present and <= 0; a row whose only defect is a null in a field whose
\* requirement is switched off is kept.
C10_Original ==
    stage = "called" =>
        LET input == hist[Len(hist) - 1]
            Removed(r) ==
                \/ args.require_created_date /\ r.created_date = NA
                \/ args.require_closed_date /\ r.closed_date = NA
                \/ args.require_borough /\ r.borough = NULL
                \/ /\ "response_time_days" \in DOMAIN r
                   /\ r.response_time_days # NA
                   /\ r.response_time_days[1] <= 0
        IN  df = RowsWhere(input, LAMBDA r : ~Removed(r))

====
